---- MODULE Spec2Model ----
(***************************************************************************)
(* A model of the vscode-annotate extension: the annotation store          *)
(* (AnnotationStorage), its version-control adapter (GitService) and the   *)
(* asynchronous handlers of the extension that drive them.                 *)
(*                                                                         *)
(* Every handler is an async function.  A handler runs without             *)
(* interruption up to its next `await`; the continuation after the await   *)
(* is a separate step, and between the two any other handler may run.      *)
(* Each action below is one such step: the code from one await (or from    *)
(* the start of the handler) to the next.                                  *)
(***************************************************************************)
EXTENDS Integers, Sequences, FiniteSets, TLC

(***************************************************************************)
(* Bounds of the model.                                                    *)
(***************************************************************************)
\* handlers started after activation
MaxOps == 2
\* handlers that may be suspended at an await at the same time
MaxInFlight == 2
\* ticks of the millisecond clock read by Date.now()
MaxClock == 1
\* segments of a project path handed to hashProjectPath
MaxSegs == 3

(***************************************************************************)
(* Values.                                                                 *)
(***************************************************************************)
\* JavaScript's null (no repository path, no git instance)
Null == "null"
\* an undefined project path
NoPath == <<>>

\* repository roots the user may configure
Roots == {"r1", "r2"}

\* workspace folders (fsPath, as a sequence of path segments)
Projects == {<<"w", "a">>, <<"w", "b">>}

\* project-relative paths of the documents that can be annotated
Files == {"a.ts", "b.ts"}

\* texts a user may type
Texts == {"fix this", "fixed"}
NewTexts == {"fix this"}

\* the name and the address git config user.name and user.email yield
GitUserName == "Alice"
GitUserEmail == "alice@example.com"

\* the commands activate registers
ExtensionCommands ==
  {"vscode-annotate.toggleAnnotations", "vscode-annotate.addAnnotation",
   "vscode-annotate.configureRepo", "vscode-annotate.syncAnnotations"}

\* the commands the constructor of AnnotationCommentController registers
ControllerCommands ==
  {"vscode-annotate.createAnnotationComment", "vscode-annotate.editAnnotationComment",
   "vscode-annotate.saveAnnotationComment", "vscode-annotate.cancelAnnotationComment",
   "vscode-annotate.deleteAnnotationComment", "vscode-annotate.deleteAnnotationThread"}

\* the id of an annotation written by a team member on another machine
ExtId == 0
\* the id of an annotation written in an earlier session
OldId == -1
\* no id
NoId == -9

\* lines of a document
Lines == {1}

(***************************************************************************)
(* Paths: path.normalize, path.basename and the location of a project's    *)
(* document.  A path is the sequence of its segments; an empty last        *)
(* segment is a trailing separator, which path.normalize keeps.            *)
(***************************************************************************)
RECURSIVE NormalizeSegs(_, _)
NormalizeSegs(todo, done) ==
  IF todo = <<>> THEN done
  ELSE LET s == Head(todo) IN
       IF s = "." \/ s = "" THEN NormalizeSegs(Tail(todo), done)
       ELSE IF s = ".."
            THEN NormalizeSegs(Tail(todo),
                   IF done = <<>> THEN done ELSE SubSeq(done, 1, Len(done) - 1))
            ELSE NormalizeSegs(Tail(todo), Append(done, s))

normalize(path) ==
  LET body == NormalizeSegs(path, <<>>)
  IN  IF path # <<>> /\ path[Len(path)] = "" /\ body # <<>>
      THEN Append(body, "") ELSE body

basename(path) ==
  LET segs == NormalizeSegs(path, <<>>)
  IN  IF segs = <<>> THEN "" ELSE segs[Len(segs)]

\* replace(/[^a-zA-Z0-9-_]/g, '_') on the segments the model uses
Sanitize(name) == IF name = "my.app" THEN "my_app" ELSE name

\* the SHA-256 digest of a string, cut to 16 hex digits: distinct strings
\* of the model have distinct digests
Digest(str) == <<"sha256", str>>

\* (mutant) the path is hashed as it was given
hashProjectPathRaw(projectPath) ==
  <<Sanitize(basename(projectPath)), Digest(projectPath)>>

hashProjectPath(projectPath) ==
  LET normalized == normalize(projectPath)
  IN  <<Sanitize(basename(normalized)), Digest(normalized)>>

getAnnotationFilePath(projectPath, root) ==
  <<root, hashProjectPath(projectPath), "annotations.json">>

readmePath(root) == <<root, "README.md">>

AnnotationFiles == {getAnnotationFilePath(p, r) : p \in Projects, r \in Roots}

\* the segments a path may be written with: names, an empty segment (a
\* doubled or trailing separator), "." and ".."
RawSegments == {"w", "a", "", ".", ".."}

\* the project paths handed to hashProjectPath
RawPaths == UNION {[1..n -> RawSegments] : n \in 1..MaxSegs}

\* a document open in an editor: the project folder it lies in and its
\* path in that folder
Documents == {[p |-> q, f |-> f] : q \in Projects, f \in Files}

\* a file of the same name in a subfolder of a project's folder
SubFile == "sub/a.ts"

\* the documents provideCodeLenses may be asked about
LensDocuments == Documents \cup {[p |-> <<"w", "a">>, f |-> SubFile]}
NoEditor == [p |-> NoPath, f |-> ""]

\* path.relative(from, document.uri.fsPath), for a document of the folder
\* from or of a folder next to it
relative(from, doc) ==
  IF doc.p = from THEN doc.f ELSE "../" \o basename(doc.p) \o "/" \o doc.f

TreeFiles(root) ==
  {readmePath(root)} \cup {getAnnotationFilePath(p, root) : p \in Projects}

AllFiles == UNION {TreeFiles(r) : r \in Roots}

(***************************************************************************)
(* The on-disk document.  JSON.stringify writes the properties of an       *)
(* annotation in the order they were created; JSON.parse reads them back   *)
(* by name.  The text of a document is modelled as the version tag and     *)
(* the sequence of the annotations' values in that order.                  *)
(***************************************************************************)
\* readFile of a file that does not exist
ENOENT == [kind |-> "ENOENT"]
\* a file whose text is not JSON
Malformed == [kind |-> "SyntaxError"]
\* fs.readFile fails for another reason than a missing file
ReadError == [kind |-> "EIO"]
ReadmeText == [kind |-> "text", text |-> "# Code Annotations Repository"]

ToJson(a) ==
  <<a.id, a.filePath, a.line, a.column, a.text, a.author, a.timestamp, a.projectPath>>

FromJson(t) ==
  [id |-> t[1], filePath |-> t[2], line |-> t[3], column |-> t[4],
   text |-> t[5], author |-> t[6], timestamp |-> t[7], projectPath |-> t[8]]

Stringify(anns) ==
  [kind |-> "json", version |-> "1.0", annotations |-> [i \in 1..Len(anns) |-> ToJson(anns[i])]]

IsDocument(content) == content.kind = "json"

\* (mutant) the annotations come back in the opposite order
ParseReversed(content) ==
  [i \in 1..Len(content.annotations) |->
     FromJson(content.annotations[Len(content.annotations) + 1 - i])]

\* data.annotations of JSON.parse(content)
Parse(content) ==
  [i \in 1..Len(content.annotations) |-> FromJson(content.annotations[i])]

\* the annotations of a file as a reader sees them
DocAnnotations(content) == IF IsDocument(content) THEN Parse(content) ELSE <<>>

\* the annotation a team member wrote on another machine.  Time counts in
\* milliseconds from the construction of the extension's objects.
ExtAnnotation(projectPath) ==
  [id |-> ExtId, filePath |-> "a.ts", line |-> 1, column |-> 0, text |-> "fix this",
   author |-> "Bob", timestamp |-> -1, projectPath |-> projectPath]

\* the annotation of an earlier session
OldAnnotation(projectPath) ==
  [id |-> OldId, filePath |-> "b.ts", line |-> 1, column |-> 0, text |-> "fixed",
   author |-> GitUserName, timestamp |-> -2, projectPath |-> projectPath]

(***************************************************************************)
(* State.                                                                  *)
(***************************************************************************)
VARIABLES
  repoPath,              \* GitService.repoPath
  git,                   \* GitService.git: the root its SimpleGit instance is bound to
  annotations,           \* AnnotationStorage.annotations: Map<projectPath, Annotation[]>
  currentProjectPath,    \* the extension's current project
  defaultAuthorName,     \* AnnotationCommentController.defaultAuthorName
  disk,                  \* the text of every file under the repository roots
  repos,                 \* the git repository at each root
  hasRemote,             \* whether a remote is configured
  configRepositoryPath,  \* the setting vscode-annotate.repositoryPath
  configEvent,           \* a change of that setting not yet delivered to its listener
  workspaceFolders,      \* fsPath of the first workspace folder
  now,                   \* the last value read from Date.now()
  nextId,                \* the next identifier randomUUID() yields
  handlers,              \* the handlers suspended at an await
  last,                  \* the handler that ended last, as it ended; blank once
                         \* another handler has started
  activation,            \* progress of activate()
  initialized,           \* whether a call of GitService.initialize has returned
  started,               \* handlers started so far
  added,                 \* the annotations whose addAnnotation returned, since
                         \* the repository path was last set
  removed,               \* ids removeAnnotation was called with
  lastAdd,               \* the last add, while nothing else changed its collection
  external,              \* whether something outside the extension interfered: a
                         \* pull brought a change made elsewhere, or a read failed
  activeEditor,          \* the document of vscode.window.activeTextEditor
  annotationsEnabled,    \* the extension's annotationsEnabled
  codeLens,              \* AnnotationCodeLensProvider: enabled and annotations
  threads,               \* AnnotationCommentController.threads
  inputThreads,          \* the comment threads made by user input, on which a
                         \* create was submitted while an editor was open
  decorations,           \* the calls of updateDecorationsForEditor suspended at
                         \* getGitUserInfo
  userInfo,              \* what the last call of getGitUserInfo came to
  commands,              \* the commands registered with vscode.commands
  probe                  \* a project path, another one, and where
                         \* getAnnotationFilePath places them

vars ==
  <<repoPath, git, annotations, currentProjectPath, defaultAuthorName, disk, repos,
    hasRemote, configRepositoryPath, configEvent, workspaceFolders, now, nextId,
    handlers, last, activation, initialized, started, added, removed, lastAdd,
    external, activeEditor, annotationsEnabled, codeLens, threads, inputThreads,
    decorations, userInfo, commands, probe>>

\* the variables of the user interface
uiVars ==
  <<activeEditor, annotationsEnabled, codeLens, threads, inputThreads, decorations,
    userInfo>>

\* the variables of the extension's objects and of their environment
extensionVars ==
  <<repoPath, git, annotations, currentProjectPath, defaultAuthorName, disk, repos,
    hasRemote, configRepositoryPath, configEvent, workspaceFolders, now, nextId,
    handlers, last, activation, initialized, started, added, removed, lastAdd,
    external, uiVars, commands>>

Slots == 1..MaxInFlight

NoAnn ==
  [id |-> NoId, filePath |-> "", line |-> 0, column |-> 0, text |-> "", author |-> "",
   timestamp |-> 0, projectPath |-> NoPath]

NoAdd == [id |-> NoId, p |-> NoPath, pre |-> <<>>]

\* the ids the user can name: those of the threads shown at some time
KnownIds == {OldId, ExtId} \cup 1..(nextId - 1)

Message(op, author, path, id) == [op |-> op, author |-> author, path |-> path, id |-> id]

\* the array a suspended saveAnnotations holds: the array the map holds now
\* (live), or one the map held earlier, whose objects may still be shared
Live == [live |-> TRUE, val |-> <<>>, shared |-> FALSE]
Fresh == [live |-> FALSE, val |-> <<>>, shared |-> FALSE]

\* what a handler knows of the handler before it
NoPrev == [committed |-> FALSE, p |-> NoPath, commits |-> 0]

\* the adapter's fields before any initialize
NoBound == [repoPath |-> Null, git |-> Null]

\* a handler: where it is suspended (pc), its locals, the error it ended
\* with (err), whether it showed a warning (warned), and its history: the
\* map and the adapter's fields when it started (mem, bound), the await
\* that failed (fail), whether it read a document (read), whether its
\* mutation changed the text of the document (changed), and the git
\* commands it ran (commits, pushes, pulls)
Blank ==
  [kind |-> "idle", pc |-> "", p |-> NoPath, file |-> <<>>, arr |-> Fresh,
   content |-> ENOENT, in |-> "", id |-> NoId, text |-> "", ann |-> NoAnn,
   msg |-> Message("", "", "", NoId), root |-> Null, g |-> Null,
   pre |-> <<>>, ret |-> "", rp |-> NoPath, undo |-> NoAdd,
   err |-> "", warned |-> FALSE, mem |-> <<>>, fail |-> "", read |-> FALSE,
   commits |-> 0, pushes |-> 0, pulls |-> 0, prev |-> NoPrev,
   bound |-> NoBound, changed |-> FALSE, enabled |-> TRUE]

Idle == Blank

\* the handler before this one ended with commitChanges returning
Prev ==
  [committed |-> (last.pc = "returned" /\ last.in = "commit" /\ last.fail = ""),
   p |-> last.p, commits |-> last.commits]

NewHandler(kind) ==
  [Blank EXCEPT !.kind = kind, !.mem = annotations, !.prev = Prev,
                !.bound = [repoPath |-> repoPath, git |-> git]]

\* the handler's promise resolves
Return(h) == [h EXCEPT !.pc = "returned"]

\* an error is thrown; the handler's caller catches and reports it
Throw(h, error) == [h EXCEPT !.pc = "threw", !.err = error]

Ended(h) == h.pc \in {"returned", "threw"}

Busy == {s \in Slots : handlers[s].kind # "idle"}

FreeSlot == CHOOSE s \in Slots \ Busy : \A t \in Slots \ Busy : s <= t

\* this.annotations.get(projectPath) || []
Get(projectPath) ==
  IF projectPath \in DOMAIN annotations THEN annotations[projectPath] ELSE <<>>

getAllAnnotations(projectPath) == Get(projectPath)

\* (mutant) the filter on the file is left out
getAnnotationsForFileAll(filePath, projectPath) == Get(projectPath)

\* projectAnnotations.filter(a => a.filePath === filePath)
getAnnotationsForFile(filePath, projectPath) ==
  SelectSeq(Get(projectPath), LAMBDA a : a.filePath = filePath)

\* (mutant) the map is replaced by one that holds this project only
SetOnly(projectPath, list) == [q \in {projectPath} |-> list]

\* this.annotations.set(projectPath, list)
Set(projectPath, list) ==
  [q \in DOMAIN annotations \cup {projectPath} |->
     IF q = projectPath THEN list ELSE annotations[q]]

getRepoPath == repoPath

\* the working tree of the repository at root
Tree(root) == [f \in TreeFiles(root) |-> disk[f]]

EmptyTree(root) == [f \in TreeFiles(root) |-> ENOENT]

InitialCommit == Message("Initial commit", "", "", NoId)

\* Date.now(): not before the last reading
ClockReads == {t \in {now, now + 1} : t <= MaxClock}

(***************************************************************************)
(* The state after construction of the extension's objects, before         *)
(* activate() has run.  Root r1 holds a repository of an earlier session   *)
(* with two annotations of project /w/a and a document of project /w/b     *)
(* that is not JSON; root r2 holds nothing.                                *)
(***************************************************************************)
Disk0 ==
  [f \in AllFiles |->
     IF f = readmePath("r1") THEN ReadmeText
     ELSE IF f = getAnnotationFilePath(<<"w", "a">>, "r1")
          THEN Stringify(<<OldAnnotation(<<"w", "a">>), ExtAnnotation(<<"w", "a">>)>>)
          ELSE IF f = getAnnotationFilePath(<<"w", "b">>, "r1")
               THEN Malformed
               ELSE ENOENT]

Repos0 ==
  [r \in Roots |->
     IF r = "r1"
     THEN [isRepo |-> TRUE,
           index |-> [f \in TreeFiles(r) |-> Disk0[f]],
           head |-> [f \in TreeFiles(r) |-> Disk0[f]],
           log |-> <<InitialCommit, Message("Add", GitUserName, "b.ts", NoId),
                     Message("Add", "Bob", "a.ts", NoId)>>,
           pushed |-> 3]
     ELSE [isRepo |-> FALSE, index |-> EmptyTree(r), head |-> EmptyTree(r),
           log |-> <<>>, pushed |-> 0]]

\* no comment thread
NoThreads == <<>>

\* getGitUserInfo has not been called
NoUserInfo == [name |-> "", email |-> "", warned |-> FALSE, threw |-> FALSE, g |-> Null]

NoLocation == <<>>

NoProbe == [path |-> <<>>, other |-> <<>>, at |-> NoLocation, otherAt |-> NoLocation]

\* the extension's objects
Constructed ==
  /\ repoPath = Null
  /\ git = Null
  /\ annotations = <<>>
  /\ currentProjectPath = NoPath
  /\ defaultAuthorName = "Unknown"
  /\ disk = Disk0
  /\ repos = Repos0
  /\ hasRemote \in BOOLEAN
  /\ configRepositoryPath \in {Null, "r1"}
  /\ configEvent = FALSE
  /\ workspaceFolders = <<"w", "a">>
  /\ now = 0
  /\ nextId = 1
  /\ handlers = [s \in Slots |-> Idle]
  /\ last = Blank
  /\ activation = "pending"
  /\ initialized = FALSE
  /\ started = 0
  /\ added = {}
  /\ removed = {}
  /\ lastAdd = NoAdd
  /\ external = FALSE
  /\ annotationsEnabled = TRUE
  /\ codeLens = [enabled |-> TRUE, annotations |-> <<>>]
  /\ threads = NoThreads
  /\ inputThreads = {}
  /\ decorations = {}
  /\ userInfo = NoUserInfo
  /\ commands = ControllerCommands

\* no editor is open
Init ==
  /\ Constructed
  /\ activeEditor = NoEditor
  /\ probe = NoProbe

(***************************************************************************)
(* AnnotationStorage: what each operation does to a project's array.       *)
(***************************************************************************)
\* (mutant) the identifier drawn last is yielded again
NewIdRepeated == IF nextId > 1 THEN nextId - 1 ELSE nextId

\* randomUUID(): an identifier never drawn before
NewId == nextId

\* (mutant) unshift instead of push
addAnnotationFirst(list, annotation) == <<annotation>> \o list

\* (mutant) the array is replaced by one holding only the new annotation
addAnnotationOnly(list, annotation) == <<annotation>>

\* projectAnnotations.push(annotation)
addAnnotation(list, annotation) == Append(list, annotation)

\* (mutant) splice at the wrong index: the last annotation goes
removeAnnotationLast(list, id) ==
  IF \E j \in 1..Len(list) : list[j].id = id
  THEN SubSeq(list, 1, Len(list) - 1) ELSE list

\* projectAnnotations.filter(a => a.id !== id)
removeAnnotation(list, id) == SelectSeq(list, LAMBDA a : a.id # id)

\* (mutant) falls back to the first annotation when none matches
findOrFirst(list, id) ==
  IF \E j \in 1..Len(list) : list[j].id = id
  THEN CHOOSE j \in 1..Len(list) :
         list[j].id = id /\ \A k \in 1..(j - 1) : list[k].id # id
  ELSE IF list = <<>> THEN 0 ELSE 1

\* projectAnnotations.find(a => a.id === id): the index of the first match, or 0
find(list, id) ==
  IF \E j \in 1..Len(list) : list[j].id = id
  THEN CHOOSE j \in 1..Len(list) :
         list[j].id = id /\ \A k \in 1..(j - 1) : list[k].id # id
  ELSE 0

\* (mutant) the author is refreshed too
updateAnnotationAuthor(list, id, newText, t) ==
  LET j == find(list, id)
  IN  IF j = 0 THEN list
      ELSE [list EXCEPT ![j] = [@ EXCEPT !.text = newText, !.timestamp = t,
                                         !.author = defaultAuthorName]]

\* (mutant) the timestamp is not refreshed
updateAnnotationKeepsTime(list, id, newText, t) ==
  LET j == find(list, id)
  IN  IF j = 0 THEN list ELSE [list EXCEPT ![j] = [@ EXCEPT !.text = newText]]

\* annotation.text = newText; annotation.timestamp = Date.now()
updateAnnotation(list, id, newText, t) ==
  LET j == find(list, id)
  IN  IF j = 0 THEN list
      ELSE [list EXCEPT ![j] = [@ EXCEPT !.text = newText, !.timestamp = t]]

\* (mutant) the array to write is not taken from the map
saveAnnotationsEmpty(h, projectPath, in) ==
  IF getRepoPath = Null
  THEN Throw([h EXCEPT !.p = projectPath], "Annotation repository not configured")
  ELSE [h EXCEPT !.pc = "save_mkdir", !.in = in, !.p = projectPath,
                 !.file = getAnnotationFilePath(projectPath, getRepoPath),
                 !.arr = Fresh]

\* saveAnnotations up to its first await (fs.mkdir): the repository path is
\* read, the file is named and the array to write is taken from the map.
\* A handler that throws ends: every caller catches and reports the error.
saveAnnotations(h, projectPath, in) ==
  IF getRepoPath = Null
  THEN Throw([h EXCEPT !.p = projectPath], "Annotation repository not configured")
  ELSE [h EXCEPT !.pc = "save_mkdir", !.in = in, !.p = projectPath,
                 !.file = getAnnotationFilePath(projectPath, getRepoPath),
                 !.arr = IF projectPath \in DOMAIN annotations \/ in # "commit"
                         THEN Live ELSE Fresh]

\* commitChanges up to its first await
commitChanges(h, projectPath) == saveAnnotations(h, projectPath, "commit")

\* (mutant) no document is read and memory is left as it is
loadAnnotationsSkipped(h, projectPath) == Return(h)

\* loadAnnotations up to its first await (fs.readFile)
loadAnnotations(h, projectPath) ==
  IF getRepoPath = Null THEN Return(h)
  ELSE [h EXCEPT !.pc = "load_read", !.p = projectPath,
                 !.file = getAnnotationFilePath(projectPath, getRepoPath)]

\* GitService.initialize up to its first await (fs.access)
initialize(h, root) == [h EXCEPT !.pc = "init_access", !.root = root]

\* The map's entry for projectPath is replaced by another array: a suspended
\* saveAnnotations keeps the array it took.  filter() keeps the objects
\* (shared), JSON.parse makes new ones.
OnSet(h, projectPath, shared) ==
  IF h.pc = "save_mkdir" /\ h.p = projectPath
  THEN IF h.arr.live
       THEN [h EXCEPT !.arr = [live |-> FALSE, val |-> Get(projectPath),
                               shared |-> shared]]
       ELSE [h EXCEPT !.arr = [@ EXCEPT !.shared = @ /\ shared]]
  ELSE h

\* An annotation object is changed in place: arrays that share it see it.
OnUpdate(h, projectPath, id, newText, t) ==
  IF h.pc = "save_mkdir" /\ h.p = projectPath /\ ~h.arr.live /\ h.arr.shared
  THEN [h EXCEPT !.arr = [@ EXCEPT !.val = updateAnnotation(@, id, newText, t)]]
  ELSE h

\* (mutant) the catch block of getGitUserInfo is left out
getGitUserInfoThrows(g) ==
  IF g = Null
  THEN [name |-> "", email |-> "", warned |-> FALSE, threw |-> TRUE, g |-> g]
  ELSE [name |-> GitUserName, email |-> GitUserEmail, warned |-> FALSE,
        threw |-> FALSE, g |-> g]

\* getGitUserInfo: without a git instance executeGitCommand throws, the
\* catch block shows a warning and returns the fallback identity
getGitUserInfo(g) ==
  IF g = Null
  THEN [name |-> "Unknown", email |-> "unknown@example.com", warned |-> TRUE,
        threw |-> FALSE, g |-> g]
  ELSE [name |-> GitUserName, email |-> GitUserEmail, warned |-> FALSE,
        threw |-> FALSE, g |-> g]

\* (mutant) a failed initialize leaves activate before the commands are registered
registerCommandsUnlessFailed(h) ==
  IF h.pc = "threw" THEN commands ELSE commands \cup ExtensionCommands

\* activate, after its try block: the four calls of registerCommand
registerCommands(h) == commands \cup ExtensionCommands

\* the handler that goes from h to h2 ends with this step and calls
\* updateDecorationsForEditor on its way out, through refreshDecorations or,
\* in activate, directly
Refreshes(h, h2) ==
  /\ Ended(h2)
  /\ \/ h2.kind \in {"wsChange", "activate", "toggle"}
     \/ h2.kind \in {"create", "edit", "delete"} /\ h2.pc = "returned" /\ h.kind # "idle"
     \/ h2.kind = "sync" /\ h2.pc = "returned" /\ h2.err = ""
     \/ h2.kind \in {"configure", "configChange"} /\ h2.pc = "returned"
          /\ (h.pc = "load_got" \/ workspaceFolders # NoPath)

\* currentProjectPath once the step from h to h2 is taken: the steps that
\* call loadAnnotationsForWorkspace set it to the first workspace folder
ProjectAfter(h, h2) ==
  IF h.kind = "idle" /\ h2.kind = "wsChange"
  THEN IF workspaceFolders' # NoPath THEN workspaceFolders' ELSE currentProjectPath
  ELSE IF /\ workspaceFolders # NoPath
          /\ \/ h.pc \in {"userinfo", "cfg_update"}
             \/ h.kind = "configChange" /\ h.pc \in {"init_check", "init_commit"}
       THEN workspaceFolders ELSE currentProjectPath

\* getAnnotationsForFile once the step from h is taken
ForFileAfter(h, filePath, projectPath) ==
  LET map == IF h.pc = "load_got" THEN annotations' ELSE annotations
      projectAnnotations ==
        IF projectPath \in DOMAIN map THEN map[projectPath] ELSE <<>>
  IN  SelectSeq(projectAnnotations, LAMBDA a : a.filePath = filePath)

\* codeLensProvider.setAnnotationsForFile(filePath, list): the provider's
\* Map, as the sequence of its entries in insertion order
setAnnotationsForFile(filePath, list) ==
  LET entries == codeLens.annotations
      entry == [path |-> filePath, annotations |-> list]
  IN  [codeLens EXCEPT !.annotations =
         IF \E i \in 1..Len(entries) : entries[i].path = filePath
         THEN [i \in 1..Len(entries) |->
                 IF entries[i].path = filePath THEN entry ELSE entries[i]]
         ELSE Append(entries, entry)]

\* codeLensProvider.setEnabled(enabled)
setEnabled(enabled) == [codeLens EXCEPT !.enabled = enabled]

\* the segments of a relative path: of a file of a project's folder, of the
\* file in its subfolder, or of a path path.relative made for a document of
\* the folder next to the project's
Segments(filePath) ==
  IF filePath \in Files THEN <<filePath>>
  ELSE IF filePath = SubFile THEN <<"sub", "a.ts">>
  ELSE LET doc == CHOOSE d \in Documents :
                    filePath = "../" \o basename(d.p) \o "/" \o d.f
       IN  <<"..", basename(doc.p), doc.f>>

\* document.uri.fsPath
fsPath(doc) == doc.p \o Segments(doc.f)

\* str.endsWith('/' + suffix), or str === suffix, on segments
EndsWith(path, suffix) ==
  /\ Len(suffix) <= Len(path)
  /\ SubSeq(path, Len(path) - Len(suffix) + 1, Len(path)) = suffix

\* the stored key matches the document: the document's path is the key or
\* ends with "/" and the key
MatchesDocument(doc, storedPath) == EndsWith(fsPath(doc), Segments(storedPath))

\* list, followed by the annotations of more whose id is not yet in it
RECURSIVE AppendUnseen(_, _)
AppendUnseen(list, more) ==
  IF more = <<>> THEN list
  ELSE AppendUnseen(
         IF \E i \in 1..Len(list) : list[i].id = Head(more).id
         THEN list ELSE Append(list, Head(more)),
         Tail(more))

\* the annotations of the entries that match the document, once per id
RECURSIVE FileAnnotations(_, _, _)
FileAnnotations(doc, entries, seen) ==
  IF entries = <<>> THEN seen
  ELSE FileAnnotations(doc, Tail(entries),
         IF MatchesDocument(doc, Head(entries).path)
         THEN AppendUnseen(seen, Head(entries).annotations) ELSE seen)

\* provideCodeLenses(document): the annotations a lens is made for (every
\* line of the model lies within the document)
provideCodeLenses(doc) ==
  IF ~codeLens.enabled THEN <<>>
  ELSE FileAnnotations(doc, codeLens.annotations, <<>>)

\* clearThreadsForDocument(uri): the threads of the document are disposed of
\* and leave the map
clearThreadsForDocument(map, doc) ==
  [id \in {i \in DOMAIN map : map[i].doc # doc} |-> map[id]]

\* createThreadForAnnotation(uri, annotation) for each annotation of list
RECURSIVE createThreads(_, _, _)
createThreads(map, doc, list) ==
  IF list = <<>> THEN map
  ELSE LET a == Head(list)
           thread == [doc |-> doc, text |-> a.text, author |-> a.author, live |-> TRUE]
       IN  createThreads(
             [id \in DOMAIN map \cup {a.id} |-> IF id = a.id THEN thread ELSE map[id]],
             doc, Tail(list))

\* updateDecorationsForEditor up to its await of getGitUserInfo: the code
\* lenses of the document are set, and the call is suspended with the
\* annotations it took
Decorate(h, h2) ==
  IF activeEditor = NoEditor \/ ~Refreshes(h, h2) \/ ProjectAfter(h, h2) = NoPath
  THEN UNCHANGED <<codeLens, decorations>>
  ELSE LET filePath == relative(ProjectAfter(h, h2), activeEditor)
           list == ForFileAfter(h, filePath, ProjectAfter(h, h2))
       IN  /\ codeLens' = setAnnotationsForFile(filePath, list)
           /\ decorations' = decorations \cup
                {[doc |-> activeEditor, annotations |-> list]}

\* handleCreateAnnotation, before onSave is called: the comment is added to
\* the thread of the reply, which is in no map and carries no annotationId.
\* ann is the id of the annotation onSave makes of it, NoId when it makes
\* none; n tells the threads of two submits apart.
InputThread(h2) ==
  [doc |-> IF h2.ann.id = NoId THEN activeEditor
           ELSE [p |-> h2.ann.projectPath, f |-> h2.ann.filePath],
   text |-> IF h2.ann.id = NoId THEN h2.text ELSE h2.ann.text,
   ann |-> h2.ann.id, n |-> started, live |-> TRUE]

\* what the step of a handler from h to h2 does to the user interface
Ui(h, h2) ==
  /\ Decorate(h, h2)
  /\ userInfo' = IF h.pc = "userinfo" THEN getGitUserInfo(git) ELSE userInfo
  /\ threads' = IF h2.kind = "delete" /\ Ended(h2) /\ h.kind # "idle"
                    /\ h2.id \in DOMAIN threads
                 THEN [threads EXCEPT ![h2.id].live = FALSE] ELSE threads
  /\ inputThreads' = IF h.kind = "idle" /\ h2.kind = "create" /\ activeEditor # NoEditor
                     THEN inputThreads \cup {InputThread(h2)} ELSE inputThreads
  /\ UNCHANGED <<activeEditor, annotationsEnabled>>

\* the step from h to h2 is the one at which initialize returns: checkIsRepo
\* found a repository, or the initial commit was made
InitializeReturns(h, h2) ==
  \/ h.pc = "init_commit"
  \/ h.pc = "init_check" /\ h2.pc # "init_init"

SetCore(s, h2, Other(_)) ==
  /\ handlers' = [t \in Slots |-> IF t = s THEN (IF Ended(h2) THEN Idle ELSE h2)
                                  ELSE Other(handlers[t])]
  /\ last' = IF Ended(h2) THEN h2
             ELSE IF handlers[s].kind = "idle" THEN Blank ELSE last
  /\ activation' = IF handlers[s].kind = "activate" /\ Ended(h2)
                   THEN "done" ELSE activation
  /\ initialized' = (initialized \/ InitializeReturns(handlers[s], h2))
  /\ commands' = IF handlers[s].kind = "activate" /\ Ended(h2)
                 THEN registerCommands(h2) ELSE commands
  /\ UNCHANGED probe

SetHandlers(s, h2, Other(_)) == SetCore(s, h2, Other) /\ Ui(handlers[s], h2)

SetH(s, h2) == SetHandlers(s, h2, LAMBDA h : h)

\* a handler may start: the commands are registered, the bounds allow it,
\* and fewer than lim handlers and calls of updateDecorationsForEditor are
\* suspended
CanStart(lim) ==
  /\ activation = "done"
  /\ started < MaxOps
  /\ Cardinality(Busy) + Cardinality(decorations) < lim

\* loadAnnotationsForWorkspace up to its first await
LoadWorkspace(s, h) ==
  IF workspaceFolders = NoPath
  THEN SetH(s, Return(h)) /\ UNCHANGED currentProjectPath
  ELSE /\ currentProjectPath' = workspaceFolders
       /\ SetH(s, loadAnnotations(h, workspaceFolders))

(***************************************************************************)
(* Handlers, from their start to their first await.                        *)
(***************************************************************************)
\* activate(): with a configured repository path, initialize it
Activate ==
  /\ activation = "pending"
  /\ IF configRepositoryPath = Null
     THEN /\ activation' = "done"
          /\ commands' = registerCommands(Blank)
          /\ UNCHANGED <<repoPath, handlers, last>>
     ELSE /\ activation' = "running"
          /\ repoPath' = configRepositoryPath
          /\ handlers' = [handlers EXCEPT
               ![1] = initialize(NewHandler("activate"), configRepositoryPath)]
          /\ UNCHANGED <<last, commands>>
  /\ UNCHANGED <<git, annotations, currentProjectPath, defaultAuthorName, disk, repos,
                 hasRemote, configRepositoryPath, configEvent, workspaceFolders, now,
                 nextId, initialized, started, added, removed, lastAdd, external,
                 uiVars, probe>>

\* handleCreateAnnotation and the onSave handler: addAnnotation, up to the
\* await in saveAnnotations
HandleCreateAnnotation(lim) ==
  /\ CanStart(lim)
  /\ started' = started + 1
  /\ \/ /\ currentProjectPath = NoPath
        /\ \E text \in NewTexts :
             SetH(FreeSlot, Return([NewHandler("create") EXCEPT !.text = text]))
        /\ UNCHANGED <<annotations, now, nextId, lastAdd>>
     \/ /\ currentProjectPath # NoPath
        /\ \E file \in Files, line \in Lines, text \in NewTexts, t \in ClockReads :
             LET p == currentProjectPath
                 a == [id |-> NewId, filePath |-> file, line |-> line, column |-> 0,
                       text |-> text, author |-> defaultAuthorName, timestamp |-> t,
                       projectPath |-> p]
                 h == [NewHandler("create") EXCEPT
                         !.ann = a, !.pre = Get(p),
                         !.msg = Message("Add", defaultAuthorName, file, NoId)]
             IN  /\ annotations' = Set(p, addAnnotation(Get(p), a))
                 /\ now' = t
                 /\ nextId' = nextId + 1
                 /\ lastAdd' = NoAdd
                 /\ SetH(FreeSlot, saveAnnotations(h, p, "add"))
  /\ UNCHANGED <<repoPath, git, currentProjectPath, defaultAuthorName, disk, repos,
                 hasRemote, configRepositoryPath, configEvent, workspaceFolders,
                 added, removed, external>>

\* handleSaveAnnotation and the onEdit handler: updateAnnotation, up to the
\* await in saveAnnotations; with an unknown id updateAnnotation returns at
\* once and the handler goes on to commitChanges
HandleSaveAnnotation(lim) ==
  /\ CanStart(lim)
  /\ started' = started + 1
  /\ \/ /\ currentProjectPath = NoPath
        /\ SetH(FreeSlot, Return(NewHandler("edit")))
        /\ UNCHANGED <<annotations, now, lastAdd>>
     \/ /\ currentProjectPath # NoPath
        /\ \E id \in KnownIds, newText \in Texts :
             LET p == currentProjectPath
                 h == [NewHandler("edit") EXCEPT
                         !.id = id, !.text = newText, !.pre = Get(p),
                         !.msg = Message("Update", "", "", id)]
             IN  IF find(Get(p), id) # 0
                 THEN \E t \in ClockReads :
                        /\ annotations' = Set(p, updateAnnotation(Get(p), id, newText, t))
                        /\ now' = t
                        /\ lastAdd' = NoAdd
                        /\ SetHandlers(FreeSlot, saveAnnotations(h, p, "update"),
                                       LAMBDA o : OnUpdate(o, p, id, newText, t))
                 ELSE /\ SetH(FreeSlot,
                              commitChanges([h EXCEPT !.ret = "update_absent",
                                                      !.rp = p], p))
                      /\ UNCHANGED <<annotations, now, lastAdd>>
  /\ UNCHANGED <<repoPath, git, currentProjectPath, defaultAuthorName, disk, repos,
                 hasRemote, configRepositoryPath, configEvent, workspaceFolders,
                 nextId, added, removed, external>>

\* handleDeleteAnnotation / handleDeleteThread and the onDelete handler:
\* removeAnnotation, up to the await in saveAnnotations
HandleDeleteAnnotation(lim) ==
  /\ CanStart(lim)
  /\ started' = started + 1
  /\ \/ /\ currentProjectPath = NoPath
        /\ SetH(FreeSlot, Return(NewHandler("delete")))
        /\ UNCHANGED <<annotations, removed, lastAdd>>
     \/ /\ currentProjectPath # NoPath
        /\ \E id \in KnownIds :
             LET p == currentProjectPath
                 h == [NewHandler("delete") EXCEPT
                         !.id = id, !.pre = Get(p),
                         !.undo = IF lastAdd.id = id /\ lastAdd.p = p
                                  THEN lastAdd ELSE NoAdd,
                         !.msg = Message("Remove", "", "", id)]
             IN  /\ annotations' = Set(p, removeAnnotation(Get(p), id))
                 /\ removed' = removed \cup {id}
                 /\ lastAdd' = NoAdd
                 /\ SetHandlers(FreeSlot, saveAnnotations(h, p, "remove"),
                                LAMBDA o : OnSet(o, p, TRUE))
  /\ UNCHANGED <<repoPath, git, currentProjectPath, defaultAuthorName, disk, repos,
                 hasRemote, configRepositoryPath, configEvent, workspaceFolders,
                 now, nextId, added, external>>

\* GitService.pull up to its first await (getRemotes)
pull(h) ==
  IF git = Null THEN Throw(h, "Git not initialized")
  ELSE [h EXCEPT !.pc = "pull_remotes", !.g = git]

\* syncAnnotations: sync() and pull(), up to the await of getRemotes
SyncAnnotations(lim) ==
  /\ CanStart(lim)
  /\ started' = started + 1
  /\ SetH(FreeSlot, IF currentProjectPath = NoPath
                    THEN Return([NewHandler("sync") EXCEPT
                                   !.err = "No workspace folder open"])
                    ELSE pull([NewHandler("sync") EXCEPT !.p = currentProjectPath]))
  /\ UNCHANGED <<repoPath, git, annotations, currentProjectPath, defaultAuthorName,
                 disk, repos, hasRemote, configRepositoryPath, configEvent,
                 workspaceFolders, now, nextId, added, removed, lastAdd, external>>

\* the workspace folders change; the listener calls loadAnnotationsForWorkspace
WorkspaceFoldersChange(lim) ==
  /\ CanStart(lim)
  /\ started' = started + 1
  /\ \E w \in (Projects \cup {NoPath}) \ {workspaceFolders} :
       /\ workspaceFolders' = w
       /\ IF w = NoPath
          THEN /\ SetH(FreeSlot, Return(NewHandler("wsChange")))
               /\ UNCHANGED currentProjectPath
          ELSE /\ currentProjectPath' = w
               /\ SetH(FreeSlot, loadAnnotations(NewHandler("wsChange"), w))
  /\ UNCHANGED <<repoPath, git, annotations, defaultAuthorName, disk, repos, hasRemote,
                 configRepositoryPath, configEvent, now, nextId, added, removed,
                 lastAdd, external>>

\* configureRepository: the user enters a path; initialize, up to its first await
ConfigureRepository(lim) ==
  /\ CanStart(lim)
  /\ started' = started + 1
  /\ \E root \in Roots :
       /\ repoPath' = root
       /\ SetH(FreeSlot, initialize(NewHandler("configure"), root))
  /\ added' = {}
  /\ UNCHANGED <<git, annotations, currentProjectPath, defaultAuthorName, disk, repos,
                 hasRemote, configRepositoryPath, configEvent, workspaceFolders, now,
                 nextId, removed, lastAdd, external>>

\* the listener of onDidChangeConfiguration, for a changed repositoryPath
ConfigurationChange(lim) ==
  /\ activation = "done"
  /\ Cardinality(Busy) + Cardinality(decorations) < lim
  /\ configEvent
  /\ configEvent' = FALSE
  /\ repoPath' = configRepositoryPath
  /\ SetH(FreeSlot, initialize(NewHandler("configChange"), configRepositoryPath))
  /\ added' = {}
  /\ UNCHANGED <<git, annotations, currentProjectPath, defaultAuthorName, disk, repos,
                 hasRemote, configRepositoryPath, workspaceFolders, now, nextId,
                 started, removed, lastAdd, external>>

(***************************************************************************)
(* GitService.initialize, one step per await.                              *)
(***************************************************************************)
\* initialize has returned to its caller, which runs on to its next await
AfterInitialize(s, h) ==
  IF h.kind = "activate"
  THEN IF git = Null
       THEN defaultAuthorName' = "Unknown" /\ LoadWorkspace(s, h)
       ELSE /\ SetH(s, [h EXCEPT !.pc = "userinfo", !.g = git])
            /\ UNCHANGED <<currentProjectPath, defaultAuthorName>>
  ELSE IF h.kind = "configure"
       THEN /\ SetH(s, [h EXCEPT !.pc = "cfg_update"])
            /\ UNCHANGED <<currentProjectPath, defaultAuthorName>>
       ELSE LoadWorkspace(s, h) /\ UNCHANGED defaultAuthorName

\* after fs.access / fs.mkdir of the root: this.git = simpleGit(repoPath)
InitAccessDone(s) ==
  LET h == handlers[s] IN
  /\ h.pc = "init_access"
  /\ \/ SetH(s, Throw(h, "EACCES")) /\ UNCHANGED git
     \/ git' = h.root /\ SetH(s, [h EXCEPT !.pc = "init_check", !.g = h.root])
  /\ UNCHANGED <<repoPath, annotations, currentProjectPath, defaultAuthorName, disk,
                 repos, hasRemote, configRepositoryPath, configEvent, workspaceFolders,
                 now, nextId, started, added, removed, lastAdd, external>>

\* (mutant) git init, the README and the initial commit follow in any case
InitCheckDoneAlways(s) ==
  LET h == handlers[s] IN
  /\ h.pc = "init_check"
  /\ SetH(s, [h EXCEPT !.pc = "init_init", !.g = git])
  /\ UNCHANGED <<currentProjectPath, defaultAuthorName>>
  /\ UNCHANGED <<repoPath, git, annotations, disk, repos, hasRemote,
                 configRepositoryPath, configEvent, workspaceFolders, now, nextId,
                 started, added, removed, lastAdd, external>>

\* after checkIsRepo
InitCheckDone(s) ==
  LET h == handlers[s] IN
  /\ h.pc = "init_check"
  /\ IF repos[h.g].isRepo
     THEN AfterInitialize(s, h)
     ELSE /\ SetH(s, [h EXCEPT !.pc = "init_init", !.g = git])
          /\ UNCHANGED <<currentProjectPath, defaultAuthorName>>
  /\ UNCHANGED <<repoPath, git, annotations, disk, repos, hasRemote,
                 configRepositoryPath, configEvent, workspaceFolders, now, nextId,
                 started, added, removed, lastAdd, external>>

\* after git.init(); createReadme names the file from this.repoPath
InitInitDone(s) ==
  LET h == handlers[s] IN
  /\ h.pc = "init_init"
  /\ \/ SetH(s, Throw(h, "git init failed")) /\ UNCHANGED repos
     \/ /\ repos' = [repos EXCEPT ![h.g] = [@ EXCEPT !.isRepo = TRUE]]
        /\ SetH(s, [h EXCEPT !.pc = "init_readme", !.file = readmePath(repoPath)])
  /\ UNCHANGED <<repoPath, git, annotations, currentProjectPath, defaultAuthorName,
                 disk, hasRemote, configRepositoryPath, configEvent, workspaceFolders,
                 now, nextId, started, added, removed, lastAdd, external>>

\* after the README is written
InitReadmeDone(s) ==
  LET h == handlers[s] IN
  /\ h.pc = "init_readme"
  /\ disk' = [disk EXCEPT ![h.file] = ReadmeText]
  /\ SetH(s, [h EXCEPT !.pc = "init_add", !.g = git])
  /\ UNCHANGED <<repoPath, git, annotations, currentProjectPath, defaultAuthorName,
                 repos, hasRemote, configRepositoryPath, configEvent, workspaceFolders,
                 now, nextId, started, added, removed, lastAdd, external>>

\* after git.add('.')
InitAddDone(s) ==
  LET h == handlers[s] IN
  /\ h.pc = "init_add"
  /\ IF repos[h.g].isRepo
     THEN /\ repos' = [repos EXCEPT ![h.g] = [@ EXCEPT !.index = Tree(h.g)]]
          /\ SetH(s, [h EXCEPT !.pc = "init_commit", !.g = git])
     ELSE SetH(s, Throw(h, "not a git repository")) /\ UNCHANGED repos
  /\ UNCHANGED <<repoPath, git, annotations, currentProjectPath, defaultAuthorName,
                 disk, hasRemote, configRepositoryPath, configEvent, workspaceFolders,
                 now, nextId, started, added, removed, lastAdd, external>>

\* git commit: the index becomes the head; with nothing staged no commit is made
Commit(repo, message) ==
  IF repo.index # repo.head
  THEN [repo EXCEPT !.head = repo.index, !.log = Append(repo.log, message)]
  ELSE repo

\* after git.commit('Initial commit'): initialize returns
InitCommitDone(s) ==
  LET h == handlers[s] IN
  /\ h.pc = "init_commit"
  /\ repos' = [repos EXCEPT ![h.g] = Commit(@, InitialCommit)]
  /\ AfterInitialize(s, h)
  /\ UNCHANGED <<repoPath, git, annotations, disk, hasRemote, configRepositoryPath,
                 configEvent, workspaceFolders, now, nextId, started, added, removed,
                 lastAdd, external>>

\* activate, after getGitUserInfo: setAuthorForNewThreads, then
\* loadAnnotationsForWorkspace
UserInfoDone(s) ==
  LET h == handlers[s] IN
  /\ h.pc = "userinfo"
  /\ defaultAuthorName' = getGitUserInfo(git).name
  /\ LoadWorkspace(s, h)
  /\ UNCHANGED <<repoPath, git, annotations, disk, repos, hasRemote,
                 configRepositoryPath, configEvent, workspaceFolders, now, nextId,
                 started, added, removed, lastAdd, external>>

\* configureRepository, after the setting is updated (which notifies the
\* configuration listener when the value changed): loadAnnotationsForWorkspace
ConfigUpdateDone(s) ==
  LET h == handlers[s] IN
  /\ h.pc = "cfg_update"
  /\ configRepositoryPath' = h.root
  /\ configEvent' = (configEvent \/ configRepositoryPath # h.root)
  /\ LoadWorkspace(s, h)
  /\ UNCHANGED <<repoPath, git, annotations, defaultAuthorName, disk, repos, hasRemote,
                 workspaceFolders, now, nextId, started, added, removed, lastAdd,
                 external>>

(***************************************************************************)
(* AnnotationStorage.loadAnnotations and sync, one step per await.         *)
(***************************************************************************)
\* fs.readFile reads the file, or fails
LoadRead(s) ==
  LET h == handlers[s] IN
  /\ h.pc = "load_read"
  /\ \E content \in {disk[h.file], ReadError} :
       /\ SetH(s, [h EXCEPT !.pc = "load_got", !.content = content, !.read = TRUE])
       /\ external' = (external \/ content = ReadError)
  /\ UNCHANGED <<repoPath, git, annotations, currentProjectPath, defaultAuthorName,
                 disk, repos, hasRemote, configRepositoryPath, configEvent,
                 workspaceFolders, now, nextId, started, added, removed, lastAdd>>

\* (mutant) no warning is shown
WarnsNever(content) == FALSE

\* the catch block of loadAnnotations shows a warning unless the error is
\* that the file is missing
Warns(content) == ~IsDocument(content) /\ content # ENOENT

\* (mutant) a missing file is rethrown
LoadEndThrows(h) ==
  IF h.content = ENOENT THEN Throw(h, "ENOENT")
  ELSE Return([h EXCEPT !.warned = Warns(h.content)])

\* loadAnnotations returns: every error of its try block is caught
LoadEnd(h) == Return([h EXCEPT !.warned = Warns(h.content)])

\* after fs.readFile: the parsed annotations, or [] when the read or the
\* parse failed, replace the project's array; the caller then finishes
LoadDone(s) ==
  LET h == handlers[s] IN
  /\ h.pc = "load_got"
  /\ annotations' = Set(h.p, DocAnnotations(h.content))
  /\ lastAdd' = NoAdd
  /\ SetHandlers(s, LoadEnd(h), LAMBDA o : OnSet(o, h.p, FALSE))
  /\ UNCHANGED <<repoPath, git, currentProjectPath, defaultAuthorName, disk, repos,
                 hasRemote, configRepositoryPath, configEvent, workspaceFolders, now,
                 nextId, started, added, removed, external>>

\* (mutant) the error of getRemotes() or git.pull() is swallowed and sync goes on
PullFailedSwallowed(h) == loadAnnotations([h EXCEPT !.fail = "pull"], h.p)

\* getRemotes() or git.pull() failed: pull throws, and so does sync
PullFailed(h) == Throw([h EXCEPT !.fail = "pull"], "Git pull failed")

\* (mutant) git.pull() is called whether there is a remote or not
PullRemotesDoneAlwaysPull(s) ==
  LET h == handlers[s] IN
  /\ h.pc = "pull_remotes"
  /\ SetH(s, [h EXCEPT !.pc = "pull_pull", !.g = git, !.pulls = @ + 1])
  /\ UNCHANGED <<repoPath, git, annotations, currentProjectPath, defaultAuthorName,
                 disk, repos, hasRemote, configRepositoryPath, configEvent,
                 workspaceFolders, now, nextId, started, added, removed, lastAdd,
                 external>>

\* pull, after getRemotes, which fails outside a repository: without a
\* remote pull returns and sync loads
PullRemotesDone(s) ==
  LET h == handlers[s] IN
  /\ h.pc = "pull_remotes"
  /\ SetH(s, IF ~repos[h.g].isRepo THEN PullFailed(h)
             ELSE IF hasRemote
                  THEN [h EXCEPT !.pc = "pull_pull", !.g = git, !.pulls = @ + 1]
                  ELSE loadAnnotations(h, h.p))
  /\ UNCHANGED <<repoPath, git, annotations, currentProjectPath, defaultAuthorName,
                 disk, repos, hasRemote, configRepositoryPath, configEvent,
                 workspaceFolders, now, nextId, started, added, removed, lastAdd,
                 external>>

\* what a team member pushed: their annotation added to a project's document
Pulled(content, projectPath) ==
  Stringify(Append(DocAnnotations(content), ExtAnnotation(projectPath)))

\* after git.pull(): it failed, or it merged what the remote holds, which may
\* be a change to a project's document; then sync loads
PullDone(s) ==
  LET h == handlers[s] IN
  /\ h.pc = "pull_pull"
  /\ \/ /\ SetH(s, PullFailed(h))
        /\ UNCHANGED <<disk, repos, external>>
     \/ /\ SetH(s, loadAnnotations(h, h.p))
        /\ UNCHANGED <<disk, repos, external>>
     \/ \E q \in Projects :
          LET f == getAnnotationFilePath(q, h.g)
              new == Pulled(disk[f], q)
          IN  /\ repos[h.g].isRepo
              /\ disk[f] = repos[h.g].head[f]
              /\ disk[f] # Malformed
              /\ find(DocAnnotations(disk[f]), ExtId) = 0
              /\ disk' = [disk EXCEPT ![f] = new]
              /\ repos' = [repos EXCEPT ![h.g] =
                   [@ EXCEPT !.index = [@ EXCEPT ![f] = new],
                             !.head = [@ EXCEPT ![f] = new],
                             !.log = Append(@, Message("remote", "Bob", "a.ts", NoId)),
                             !.pushed = Len(repos[h.g].log) + 1]]
              /\ external' = TRUE
              /\ SetH(s, loadAnnotations(h, h.p))
  /\ UNCHANGED <<repoPath, git, annotations, currentProjectPath, defaultAuthorName,
                 hasRemote, configRepositoryPath, configEvent, workspaceFolders, now,
                 nextId, started, added, removed, lastAdd>>

(***************************************************************************)
(* AnnotationStorage.saveAnnotations and the handler that called it.       *)
(***************************************************************************)
\* (mutant) the test of this.git is left out
commitAndPushUnchecked(h) == [h EXCEPT !.pc = "git_add", !.g = git]

\* GitService.commitAndPush up to its first await (git.add)
commitAndPush(h) ==
  IF git = Null THEN Throw(h, "Git not initialized")
  ELSE [h EXCEPT !.pc = "git_add", !.g = git]

\* (mutant) the error of fs.mkdir or fs.writeFile is swallowed
SaveFailedSwallowed(h, step) ==
  IF h.in = "commit" THEN commitAndPush([h EXCEPT !.fail = step])
  ELSE Return([h EXCEPT !.fail = step])

\* fs.mkdir or fs.writeFile failed: saveAnnotations throws, and so does the
\* operation that called it
SaveFailed(h, step) == Throw([h EXCEPT !.fail = step], "EACCES")

\* after fs.mkdir: JSON.stringify of the array taken before the await
SaveMkdirDone(s) ==
  LET h == handlers[s] IN
  /\ h.pc = "save_mkdir"
  /\ \/ SetH(s, SaveFailed(h, "mkdir"))
     \/ SetH(s, [h EXCEPT !.pc = "save_write",
                          !.content = Stringify(IF h.arr.live THEN Get(h.p)
                                                ELSE h.arr.val)])
  /\ UNCHANGED <<repoPath, git, annotations, currentProjectPath, defaultAuthorName,
                 disk, repos, hasRemote, configRepositoryPath, configEvent,
                 workspaceFolders, now, nextId, started, added, removed, lastAdd,
                 external>>

\* after fs.writeFile: the file holds the text.  When the write fails the
\* handler reports the error and ends.  Otherwise add, update or remove
\* returns and the handler calls commitChanges with the current project;
\* or commitChanges goes on to commitAndPush
SaveWriteDone(s) ==
  LET h == handlers[s] IN
  /\ h.pc = "save_write"
  /\ \/ /\ SetH(s, SaveFailed(h, "write"))
        /\ UNCHANGED <<disk, added, lastAdd>>
     \/ /\ disk' = [disk EXCEPT ![h.file] = h.content]
        /\ IF h.in = "commit"
           THEN /\ SetH(s, commitAndPush(h))
                /\ UNCHANGED <<added, lastAdd>>
           ELSE /\ added' = IF h.in = "add"
                            THEN added \cup {[id |-> h.ann.id, p |-> h.p]}
                            ELSE added
                /\ lastAdd' = IF h.in = "add"
                              THEN [id |-> h.ann.id, p |-> h.p, pre |-> h.pre]
                              ELSE lastAdd
                /\ SetH(s, commitChanges([h EXCEPT !.ret = h.in, !.rp = h.p,
                                                   !.changed = (disk[h.file] # h.content)],
                                         currentProjectPath))
  /\ UNCHANGED <<repoPath, git, annotations, currentProjectPath, defaultAuthorName,
                 repos, hasRemote, configRepositoryPath, configEvent, workspaceFolders,
                 now, nextId, started, removed, external>>

(***************************************************************************)
(* GitService.commitAndPush, one step per await.                           *)
(***************************************************************************)
\* after git.add('.'): the index holds the working tree
GitAddDone(s) ==
  LET h == handlers[s] IN
  /\ h.pc = "git_add"
  /\ IF repos[h.g].isRepo
     THEN /\ repos' = [repos EXCEPT ![h.g] = [@ EXCEPT !.index = Tree(h.g)]]
          /\ SetH(s, [h EXCEPT !.pc = "git_status", !.g = git])
     ELSE SetH(s, Throw(h, "Git operation failed")) /\ UNCHANGED repos
  /\ UNCHANGED <<repoPath, git, annotations, currentProjectPath, defaultAuthorName,
                 disk, hasRemote, configRepositoryPath, configEvent, workspaceFolders,
                 now, nextId, started, added, removed, lastAdd, external>>

\* (mutant) the check of the status is left out
NothingToCommitNever(root) == FALSE

\* status.staged, status.modified and status.created are all empty
NothingToCommit(root) ==
  /\ repos[root].index = repos[root].head
  /\ \A f \in TreeFiles(root) :
       repos[root].index[f] # ENOENT => disk[f] = repos[root].index[f]

\* after git.status(): with nothing to commit commitAndPush returns
GitStatusDone(s) ==
  LET h == handlers[s] IN
  /\ h.pc = "git_status"
  /\ SetH(s, IF NothingToCommit(h.g) THEN Return(h)
             ELSE [h EXCEPT !.pc = "git_commit", !.g = git, !.commits = @ + 1])
  /\ UNCHANGED <<repoPath, git, annotations, currentProjectPath, defaultAuthorName,
                 disk, repos, hasRemote, configRepositoryPath, configEvent,
                 workspaceFolders, now, nextId, started, added, removed, lastAdd,
                 external>>

\* after git.commit(message)
GitCommitDone(s) ==
  LET h == handlers[s] IN
  /\ h.pc = "git_commit"
  /\ repos' = [repos EXCEPT ![h.g] = Commit(@, h.msg)]
  /\ SetH(s, [h EXCEPT !.pc = "git_remotes", !.g = git])
  /\ UNCHANGED <<repoPath, git, annotations, currentProjectPath, defaultAuthorName,
                 disk, hasRemote, configRepositoryPath, configEvent, workspaceFolders,
                 now, nextId, started, added, removed, lastAdd, external>>

\* after git.getRemotes(): push when there is a remote
GitRemotesDone(s) ==
  LET h == handlers[s] IN
  /\ h.pc = "git_remotes"
  /\ SetH(s, IF hasRemote
             THEN [h EXCEPT !.pc = "git_push", !.g = git, !.pushes = @ + 1]
             ELSE Return(h))
  /\ UNCHANGED <<repoPath, git, annotations, currentProjectPath, defaultAuthorName,
                 disk, repos, hasRemote, configRepositoryPath, configEvent,
                 workspaceFolders, now, nextId, started, added, removed, lastAdd,
                 external>>

\* (mutant) the error of git.push() is swallowed
PushFailedSwallowed(h) == Return([h EXCEPT !.fail = "push"])

\* git.push() failed: the catch block of commitAndPush rethrows
PushFailed(h) == Throw([h EXCEPT !.fail = "push"], "Git operation failed")

\* after git.push(): it failed, or the remote holds every local commit
GitPushDone(s) ==
  LET h == handlers[s] IN
  /\ h.pc = "git_push"
  /\ \/ SetH(s, PushFailed(h)) /\ UNCHANGED repos
     \/ /\ SetH(s, Return(h))
        /\ repos' = [repos EXCEPT ![h.g] = [@ EXCEPT !.pushed = Len(repos[h.g].log)]]
  /\ UNCHANGED <<repoPath, git, annotations, currentProjectPath, defaultAuthorName,
                 disk, hasRemote, configRepositoryPath, configEvent, workspaceFolders,
                 now, nextId, started, added, removed, lastAdd, external>>

(***************************************************************************)
(* Specifications.                                                         *)
(***************************************************************************)
\* a suspended handler resumes
Resume ==
  \E s \in Slots :
    \/ InitAccessDone(s) \/ InitCheckDone(s) \/ InitInitDone(s)
    \/ InitReadmeDone(s) \/ InitAddDone(s) \/ InitCommitDone(s)
    \/ UserInfoDone(s) \/ ConfigUpdateDone(s)
    \/ LoadRead(s) \/ LoadDone(s) \/ PullRemotesDone(s) \/ PullDone(s)
    \/ SaveMkdirDone(s) \/ SaveWriteDone(s)
    \/ GitAddDone(s) \/ GitStatusDone(s) \/ GitCommitDone(s)
    \/ GitRemotesDone(s) \/ GitPushDone(s)

\* a handler starts while fewer than lim are suspended
Start(lim) ==
  \/ HandleCreateAnnotation(lim) \/ HandleSaveAnnotation(lim)
  \/ HandleDeleteAnnotation(lim) \/ SyncAnnotations(lim)
  \/ WorkspaceFoldersChange(lim) \/ ConfigureRepository(lim)
  \/ ConfigurationChange(lim)

\* the extension: handlers start whenever the host invokes them
Next == Activate \/ Resume \/ Start(MaxInFlight)

Spec == Init /\ [][Next]_vars

\* the store driven as its design assumes: every handler runs to completion
\* before the next one starts
SeqNext == Activate \/ Resume \/ Start(1)

SeqSpec == Init /\ [][SeqNext]_vars

(***************************************************************************)
(* The extension with a document open in the active editor: the handlers   *)
(* refresh its code lenses and comment threads, and the user toggles the   *)
(* annotations.                                                            *)
(***************************************************************************)
\* the toggleAnnotations command, up to its await of the configuration update
ToggleAnnotations(lim) ==
  /\ CanStart(lim)
  /\ started' = started + 1
  /\ annotationsEnabled' = ~annotationsEnabled
  /\ codeLens' = setEnabled(~annotationsEnabled)
  /\ SetCore(FreeSlot, [NewHandler("toggle") EXCEPT !.pc = "toggle_update",
                                                    !.enabled = ~annotationsEnabled],
             LAMBDA h : h)
  /\ UNCHANGED <<repoPath, git, annotations, currentProjectPath, defaultAuthorName,
                 disk, repos, hasRemote, configRepositoryPath, configEvent,
                 workspaceFolders, now, nextId, added, removed, lastAdd, external,
                 activeEditor, threads, inputThreads, decorations, userInfo>>

\* the setting is updated: the configuration listener reads it back, sets
\* the provider and refreshes; the command shows its message and refreshes
ToggleUpdateDone(s) ==
  LET h == handlers[s] IN
  /\ h.pc = "toggle_update"
  /\ annotationsEnabled' = h.enabled
  /\ SetCore(s, Return(h), LAMBDA o : o)
  /\ IF activeEditor = NoEditor \/ currentProjectPath = NoPath
     THEN codeLens' = setEnabled(h.enabled) /\ UNCHANGED decorations
     ELSE LET filePath == relative(currentProjectPath, activeEditor)
              list == getAnnotationsForFile(filePath, currentProjectPath)
          IN  /\ codeLens' = [setAnnotationsForFile(filePath, list) EXCEPT
                                !.enabled = h.enabled]
              /\ decorations' = decorations \cup
                   {[doc |-> activeEditor, annotations |-> list]}
  /\ UNCHANGED <<repoPath, git, annotations, currentProjectPath, defaultAuthorName,
                 disk, repos, hasRemote, configRepositoryPath, configEvent,
                 workspaceFolders, now, nextId, started, added, removed, lastAdd,
                 external, activeEditor, threads, inputThreads, userInfo>>

\* updateDecorationsForEditor after its await of getGitUserInfo: the author
\* of new threads is set, the threads of the document are cleared, and a
\* thread is made for each annotation the call took before the await
DecorDone(d) ==
  /\ userInfo' = getGitUserInfo(git)
  /\ defaultAuthorName' = getGitUserInfo(git).name
  /\ threads' = createThreads(clearThreadsForDocument(threads, d.doc), d.doc,
                              d.annotations)
  /\ decorations' = decorations \ {d}
  /\ UNCHANGED <<repoPath, git, annotations, currentProjectPath, disk, repos,
                 hasRemote, configRepositoryPath, configEvent, workspaceFolders, now,
                 nextId, handlers, last, activation, initialized, started, added,
                 removed, lastAdd, external, activeEditor, annotationsEnabled,
                 codeLens, inputThreads, commands, probe>>

\* handleSaveAnnotation on a thread made by user input: the comment takes the
\* new text; the thread carries no annotationId, so onEdit is not called
InputThreadSave(lim) ==
  /\ CanStart(lim)
  /\ started' = started + 1
  /\ \E t \in inputThreads, newText \in Texts :
       /\ t.live
       /\ inputThreads' = (inputThreads \ {t}) \cup {[t EXCEPT !.text = newText]}
       /\ SetCore(FreeSlot, Return([NewHandler("edit") EXCEPT !.text = newText]),
                  LAMBDA h : h)
  /\ UNCHANGED <<repoPath, git, annotations, currentProjectPath, defaultAuthorName,
                 disk, repos, hasRemote, configRepositoryPath, configEvent,
                 workspaceFolders, now, nextId, added, removed, lastAdd, external,
                 activeEditor, annotationsEnabled, codeLens, threads, decorations,
                 userInfo>>

\* handleDeleteAnnotation / handleDeleteThread on a thread made by user
\* input: onDelete is not called, and the thread is disposed of
InputThreadDelete(lim) ==
  /\ CanStart(lim)
  /\ started' = started + 1
  /\ \E t \in inputThreads :
       /\ t.live
       /\ inputThreads' = (inputThreads \ {t}) \cup {[t EXCEPT !.live = FALSE]}
       /\ SetCore(FreeSlot, Return(NewHandler("delete")), LAMBDA h : h)
  /\ UNCHANGED <<repoPath, git, annotations, currentProjectPath, defaultAuthorName,
                 disk, repos, hasRemote, configRepositoryPath, configEvent,
                 workspaceFolders, now, nextId, added, removed, lastAdd, external,
                 activeEditor, annotationsEnabled, codeLens, threads, decorations,
                 userInfo>>

\* a document of the workspace folder is open
UiInit ==
  /\ Constructed
  /\ activeEditor = [p |-> <<"w", "a">>, f |-> "a.ts"]
  /\ probe = NoProbe

UiNext ==
  \/ SeqNext
  \/ ToggleAnnotations(1)
  \/ InputThreadSave(1)
  \/ InputThreadDelete(1)
  \/ \E s \in Slots : ToggleUpdateDone(s)
  \/ \E d \in decorations : DecorDone(d)

UiSpec == UiInit /\ [][UiNext]_vars

(***************************************************************************)
(* getAnnotationFilePath as a function of the project path: it is applied  *)
(* to a path and to another one, under every repository root.              *)
(***************************************************************************)
PathInit ==
  /\ Constructed
  /\ ~hasRemote
  /\ configRepositoryPath = Null
  /\ activeEditor = NoEditor
  /\ \E path \in RawPaths, other \in RawPaths :
       probe = [NoProbe EXCEPT !.path = path, !.other = other]

Locate ==
  /\ probe.at = NoLocation
  /\ probe' = [probe EXCEPT
                 !.at = [root \in Roots |-> getAnnotationFilePath(probe.path, root)],
                 !.otherAt = [root \in Roots |-> getAnnotationFilePath(probe.other, root)]]
  /\ UNCHANGED extensionVars

PathNext == Locate

PathSpec == PathInit /\ [][PathNext]_vars

(***************************************************************************)
(* Claims.                                                                 *)
(***************************************************************************)
InFlight == {handlers[s] : s \in Busy}

\* the annotations of projectPath's document under the current repository root
OnDisk(projectPath) ==
  DocAnnotations(disk[getAnnotationFilePath(projectPath, repoPath)])

HasId(list, id) == \E j \in 1..Len(list) : list[j].id = id

\* C1: when add, update of a present id, or remove has returned for project
\* p, the annotations of p's on-disk document are p's in-memory collection,
\* the same annotations in the same order.
C1_MutationPersisted ==
  \A h \in InFlight :
    h.ret \in {"add", "update", "remove"} => OnDisk(h.rp) = Get(h.rp)

C1_Witness ==
  \E h \in InFlight : h.ret = "update" /\ Len(Get(h.rp)) >= 2

\* C2: with no change made to the document from outside, once no handler is
\* in flight every annotation whose add returned and whose id was never
\* removed is in the in-memory collection and in the on-disk document.
C2_NoSilentLoss ==
  (Busy = {} /\ ~external) =>
    \A e \in added :
      e.id \notin removed => HasId(Get(e.p), e.id) /\ HasId(OnDisk(e.p), e.id)

\* a store operation that changes a project's collection is in flight
InStoreOp(h) ==
  \/ h.pc \in {"save_mkdir", "save_write"} /\ h.in \in {"add", "update", "remove"}
  \/ h.pc \in {"pull_remotes", "pull_pull", "load_read", "load_got"}

\* C3: at no time are two store operations that change the same project's
\* in-memory collection (add, update, remove, load, sync) in flight together.
C3_OneStoreOpAtATime ==
  \A s1, s2 \in Slots :
    (s1 # s2 /\ InStoreOp(handlers[s1]) /\ InStoreOp(handlers[s2]))
      => handlers[s1].p # handlers[s2].p

\* C4: after add(a) has returned, the collection of a.projectPath is the
\* collection before the call with a appended as its last element.
C4_AddAppends ==
  \A h \in InFlight : h.ret = "add" => Get(h.rp) = Append(h.pre, h.ann)

C4_Witness ==
  \E h \in InFlight : h.ret = "add" /\ Len(h.pre) >= 2

\* C5: the ids of the annotations in one project's in-memory collection are
\* pairwise distinct.
C5_UniqueIds ==
  \A p \in DOMAIN annotations :
    \A i, j \in 1..Len(annotations[p]) :
      i # j => annotations[p][i].id # annotations[p][j].id

C5_Witness ==
  \E p \in DOMAIN annotations : Len(annotations[p]) >= 4

\* C6: update(id, p, newText) on a present id sets that annotation's text to
\* newText and leaves its id, filePath, line, column, author and projectPath
\* unchanged; every other annotation of p, and the order, are unchanged.
C6_UpdateFrame ==
  \A h \in InFlight :
    h.ret = "update" =>
      LET cur == Get(h.rp) IN
      /\ Len(cur) = Len(h.pre)
      /\ \A k \in 1..Len(h.pre) :
           IF h.pre[k].id = h.id
           THEN /\ cur[k].text = h.text
                /\ cur[k].id = h.pre[k].id
                /\ cur[k].filePath = h.pre[k].filePath
                /\ cur[k].line = h.pre[k].line
                /\ cur[k].column = h.pre[k].column
                /\ cur[k].author = h.pre[k].author
                /\ cur[k].projectPath = h.pre[k].projectPath
           ELSE cur[k] = h.pre[k]

C6_Witness ==
  \E h \in InFlight :
    /\ h.ret = "update"
    /\ Len(h.pre) >= 3
    /\ \E k \in 1..Len(h.pre) :
         /\ h.pre[k].id = h.id
         /\ h.pre[k].text # h.text
         /\ h.pre[k].author # defaultAuthorName

\* C7 as claimed: after update on a present id the annotation's timestamp is
\* strictly greater than before the call.
C7_TimestampStrictlyGreater ==
  \A h \in InFlight :
    h.ret = "update" =>
      \A k \in 1..Len(h.pre) :
        h.pre[k].id = h.id => Get(h.rp)[k].timestamp > h.pre[k].timestamp

\* C7 as amended: after update on a present id the annotation's timestamp is
\* the value Date.now() returned during the call.
C7_TimestampIsClockReading ==
  \A h \in InFlight :
    h.ret = "update" =>
      \A k \in 1..Len(h.pre) :
        h.pre[k].id = h.id => Get(h.rp)[k].timestamp = now

\* an update in the millisecond of the annotation's last write: the
\* timestamp stays as it was
C7_Witness ==
  \E h \in InFlight :
    /\ h.ret = "update"
    /\ \E k \in 1..Len(h.pre) :
         /\ h.pre[k].id = h.id
         /\ h.pre[k].id >= 1
         /\ Get(h.rp)[k].timestamp = h.pre[k].timestamp

\* C8: update with an id that is not in p's collection raises no error (the
\* handler goes on to commitChanges), leaves every in-memory collection
\* unchanged and does not write the on-disk document.
C8_UpdateAbsentNoOp ==
  [][\A s \in Slots :
       ( /\ handlers[s].kind = "idle"
         /\ handlers'[s].kind = "edit"
         /\ ~HasId(Get(currentProjectPath), handlers'[s].id) )
       => ( /\ annotations' = annotations
            /\ disk' = disk
            /\ handlers'[s].pc = "save_mkdir"
            /\ handlers'[s].in = "commit" )]_vars

C8_Witness ==
  \E h \in InFlight :
    h.ret = "update_absent" /\ Get(h.rp) # <<>> /\ ~HasId(Get(h.rp), h.id)

\* C9: after remove(id, p) has returned, no annotation with that id is in
\* p's collection or in p's on-disk document, and the annotations with
\* another id are kept in their order; with id absent the collection is
\* unchanged.
C9_RemoveFilters ==
  \A h \in InFlight :
    h.ret = "remove" =>
      /\ ~HasId(Get(h.rp), h.id)
      /\ ~HasId(OnDisk(h.rp), h.id)
      /\ Get(h.rp) = SelectSeq(h.pre, LAMBDA a : a.id # h.id)
      /\ (~HasId(h.pre, h.id) => Get(h.rp) = h.pre)

C9_Witness ==
  \E h \in InFlight :
    h.ret = "remove" /\ Len(h.pre) >= 3 /\ h.pre[1].id = h.id

\* C10: add(a) followed by remove(a.id, a.projectPath) leaves the collection
\* of a.projectPath as it was before the add.
C10_AddRemoveInverse ==
  \A h \in InFlight :
    (h.ret = "remove" /\ h.undo.id = h.id) => Get(h.rp) = h.undo.pre

C10_Witness ==
  \E h \in InFlight :
    h.ret = "remove" /\ h.undo.id = h.id /\ Len(h.undo.pre) >= 2

\* the handlers in flight and the one that ended last
Records == InFlight \cup {last}

\* the positions in p's collection of the annotations of file f
PositionsOf(f, p) == {i \in 1..Len(Get(p)) : Get(p)[i].filePath = f}

\* C11: annotationsForFile(f, p) returns exactly the annotations of p's
\* in-memory collection whose filePath is f, in insertion order, and none of
\* another file or another project.
C11_ForFileIsSubsequence ==
  \A f \in Files, p \in Projects :
    LET r == getAnnotationsForFile(f, p)
        pos == PositionsOf(f, p)
    IN  /\ Len(r) = Cardinality(pos)
        /\ \A i \in pos : r[Cardinality({j \in pos : j <= i})] = Get(p)[i]
        /\ \A k \in 1..Len(r) : r[k].filePath = f /\ r[k].projectPath = p

C11_Witness ==
  \E p \in Projects :
    /\ Len(getAnnotationsForFile("b.ts", p)) = 2
    /\ Len(getAnnotationsForFile("a.ts", p)) = 1
    /\ Get(p)[2].filePath = "a.ts"

\* C12: a load of a project whose document does not exist ends without an
\* error and without a warning, and leaves the project with an empty
\* collection.
C12_MissingFileLoadsEmpty ==
  (last.read /\ last.content = ENOENT) =>
    /\ last.pc = "returned"
    /\ ~last.warned
    /\ last.p \in DOMAIN annotations
    /\ annotations[last.p] = <<>>

\* the project had annotations in memory before (of another repository)
C12_Witness ==
  /\ last.read
  /\ last.content = ENOENT
  /\ last.p \in DOMAIN last.mem
  /\ last.mem[last.p] # <<>>

\* C13: load never raises an error to its caller; when the document is
\* malformed or the read fails for another reason than a missing file, the
\* project's collection becomes empty and a warning is shown.
C13_LoadNeverRaises ==
  \A r \in Records :
    r.read =>
      /\ r.pc # "threw"
      /\ (r.pc = "returned" /\ r.content \in {Malformed, ReadError}) =>
           /\ r.warned
           /\ r.p \in DOMAIN annotations
           /\ annotations[r.p] = <<>>

C13_Witness ==
  last.read /\ last.content = Malformed /\ last.pc = "returned" /\ last.warned

\* the read of a document that holds annotations fails
C13_WitnessReadError ==
  /\ last.read
  /\ last.content = ReadError
  /\ DocAnnotations(disk[last.file]) # <<>>
  /\ Get(last.p) = <<>>

\* C14: when persisting the document fails during add, update, remove or
\* commitChanges, the operation throws to its caller, and no commit and no
\* push is made.
C14_SaveFailurePropagates ==
  \A r \in Records :
    r.fail \in {"mkdir", "write"} =>
      /\ r.pc = "threw"
      /\ r.err # ""
      /\ r.commits = 0
      /\ r.pushes = 0

\* add has returned, then the write of commitChanges fails
C14_Witness ==
  last.fail = "write" /\ last.in = "commit" /\ last.ret = "add" /\ last.pc = "threw"

\* a sync whose pull and load have returned
SyncReturned == last.kind = "sync" /\ last.pc = "returned" /\ last.err = ""

\* C15 as claimed: after sync(p) has returned successfully, p's in-memory
\* collection is the annotations of p's on-disk document as it stands after
\* the pull, empty if the document is missing.
C15_SyncEqualsDocument ==
  SyncReturned => Get(last.p) = OnDisk(last.p)

\* C15 as amended: after sync(p) has returned successfully, p's in-memory
\* collection is the annotations of p's on-disk document as it stands after
\* the pull when the document was read, and empty when the document is
\* missing, is malformed or could not be read.
C15_SyncReloads ==
  SyncReturned =>
    /\ last.read
    /\ last.p \in DOMAIN annotations
    /\ annotations[last.p] = IF last.content = ReadError THEN <<>> ELSE OnDisk(last.p)

\* the pull brought a change: memory is replaced by what the document holds
C15_Witness ==
  /\ SyncReturned
  /\ last.pulls = 1
  /\ last.content # ReadError
  /\ Get(last.p) # <<>>
  /\ last.p \in DOMAIN last.mem
  /\ Get(last.p) # last.mem[last.p]

\* C16: when the pull inside sync(p) fails, sync throws and the in-memory
\* collection of every project is as it was before the call: no document is
\* read.
C16_PullFailureLeavesMemory ==
  \A r \in Records :
    /\ r.fail = "pull" => r.pc = "threw" /\ r.err = "Git pull failed"
    /\ (r.kind = "sync" /\ r.pc = "threw") => (~r.read /\ annotations = r.mem)

\* the pull fails while memory holds an annotation the document lacks
C16_Witness ==
  /\ last.kind = "sync"
  /\ last.fail = "pull"
  /\ last.pulls = 1
  /\ Get(last.p) # OnDisk(last.p)

\* C17: with no remote configured (and the adapter initialized on a
\* repository), pull returns without an error, without calling git pull and
\* without a change to any in-memory collection; commitAndPush commits
\* without calling git push.
C17_NoRemoteNoPullNoPush ==
  ~hasRemote =>
    \A r \in Records :
      /\ r.pulls = 0
      /\ r.pushes = 0
      /\ r.pc \notin {"pull_pull", "git_push"}
      /\ (r.kind = "sync" /\ r.pc = "load_read") => annotations = r.mem
      /\ (r.kind = "sync" /\ r.pc = "threw") =>
           (r.err = "Git not initialized" \/ ~repos[r.g].isRepo)
      /\ (r.commits = 1 /\ Ended(r)) => r.pc = "returned"

C17_Witness ==
  ~hasRemote /\ last.kind = "sync" /\ last.pc = "returned" /\ last.read

\* a commit without a push
C17_WitnessCommit ==
  ~hasRemote /\ last.commits = 1 /\ last.pc = "returned" /\ last.pushes = 0

\* a handler that calls commitChanges only, right after a handler whose
\* commitChanges returned for the same project
SecondCommit(r) ==
  /\ r.kind = "edit"
  /\ r.ret = "update_absent"
  /\ r.prev.committed
  /\ r.prev.p = r.rp

\* C18: a second commitChanges, with no mutation and no change from outside
\* since the first returned, makes no commit and no push and returns
\* (unless writing the document fails); the two calls make the one commit
\* of the first.
C18_SecondCommitIsNoOp ==
  \A r \in Records :
    SecondCommit(r) =>
      /\ r.commits = 0
      /\ r.pushes = 0
      /\ r.prev.commits + r.commits <= 1
      /\ r.pc = "threw" => r.fail \in {"mkdir", "write"}

C18_Witness ==
  SecondCommit(last) /\ last.prev.commits = 1 /\ last.pc = "returned"

\* C19: with a remote configured, whenever commitAndPush has returned
\* successfully every commit of the local repository has been pushed.
C19_ReturnedMeansPushed ==
  ( /\ hasRemote
    /\ last.kind \in {"create", "edit", "delete"}
    /\ last.in = "commit"
    /\ last.pc = "returned" )
  => repos[last.g].pushed = Len(repos[last.g].log)

\* C20: when the push fails commitAndPush throws, and a call of
\* commitAndPush calls git push at most once.
C20_PushFailurePropagates ==
  \A r \in Records :
    /\ r.pushes <= 1
    /\ r.fail = "push" =>
         /\ r.pc = "threw"
         /\ r.err = "Git operation failed"
         /\ r.pushes = 1

C20_Witness ==
  last.fail = "push" /\ last.commits = 1 /\ last.pc = "threw"

\* a create, edit or delete whose add, update or remove changed the text of
\* the document and whose handler has returned without an error
Mutated(r) ==
  /\ r.kind \in {"create", "edit", "delete"}
  /\ r.ret \in {"add", "update", "remove"}
  /\ r.changed
  /\ r.pc = "returned"

\* C21: a create, edit or delete that completes successfully and changes the
\* project's document has made a commit, under the message that names the
\* mutation, and once no handler is in flight the commit holds the document
\* as it is in the working tree.
C21_MutationCommitted ==
  Mutated(last) =>
    /\ last.commits = 1
    /\ Busy = {} =>
         /\ \E i \in 1..Len(repos[last.g].log) : repos[last.g].log[i] = last.msg
         /\ repos[last.g].head[last.file] = disk[last.file]

\* an initialize that threw
InitializeFailed(r) ==
  r.kind \in {"activate", "configure", "configChange"} /\ r.pc = "threw"

\* C22: when initialize fails, the adapter's repository path and git
\* instance are those it had before the call.
C22_FailedInitializeRestores ==
  \A r \in Records :
    InitializeFailed(r) => (repoPath = r.bound.repoPath /\ git = r.bound.git)

\* the steps of commitAndPush and pull that follow a git command
AfterGitCommand ==
  {"git_status", "git_commit", "git_remotes", "git_push", "pull_pull"}

C23_WitnessPull ==
  ~initialized /\ last.kind = "sync" /\ last.err = "Git not initialized"

\* the commits of the repository at root that initialize made
InitialCommits(root) ==
  {i \in 1..Len(repos[root].log) : repos[root].log[i] = InitialCommit}

\* the steps of initialize that make a repository
MakingRepository == {"init_init", "init_readme", "init_add", "init_commit"}

Acting(s) == handlers'[s] # handlers[s]

\* this step belongs to a store operation for project q: of a handler that
\* goes on, or of one that ends with it
OwnProject(q) ==
  \/ \E s \in Slots : Acting(s) /\ q \in {handlers[s].p, handlers'[s].p}
  \/ last' # last /\ last'.p = q

\* this step is the one after git.pull() of a sync
PullStep == \E s \in Slots : Acting(s) /\ handlers[s].pc = "pull_pull"

\* project q's collection or one of its documents changes in this step
ChangesProject(q) ==
  \/ (q \in DOMAIN annotations') # (q \in DOMAIN annotations)
  \/ q \in DOMAIN annotations /\ q \in DOMAIN annotations'
       /\ annotations'[q] # annotations[q]
  \/ \E root \in Roots :
       disk'[getAnnotationFilePath(q, root)] # disk[getAnnotationFilePath(q, root)]

\* C26 as claimed: a step of a store operation changes the in-memory
\* collection and the on-disk document of the operation's own project only.
C26_OnlyOwnProject ==
  [][\A q \in Projects : ChangesProject(q) => OwnProject(q)]_vars

\* C26 as amended: add, update, remove, load and commitChanges for project
\* P change the in-memory collection and the on-disk document of P only;
\* the pull of sync(P) may change the document of any project, and leaves
\* every in-memory collection as it is.
C26_OnlyOwnProjectOrPull ==
  [][\A q \in Projects :
       ChangesProject(q) =>
         (OwnProject(q) \/ (PullStep /\ annotations' = annotations))]_vars

\* an annotation is added to one project while another project has a
\* collection in memory and a document on disk
C26_Witness ==
  /\ last.kind = "create"
  /\ last.pc = "returned"
  /\ last.ret = "add"
  /\ \E q \in Projects : q # last.p /\ Get(q) # <<>> /\ OnDisk(q) # <<>>

\* a load that follows a commitChanges of the same project, with no pull
\* between them, and reads the document
LoadAfterSave(r) ==
  /\ r.read
  /\ r.pc = "returned"
  /\ r.content # ReadError
  /\ r.pulls = 0
  /\ r.prev.committed
  /\ r.prev.p = r.p
  /\ r.bound.repoPath = repoPath

C30_CommandsRegistered == activation = "done" => ExtensionCommands \subseteq commands

\* activate has completed after a failed initialize
C30_Witness ==
  /\ activation = "done"
  /\ last.kind = "activate"
  /\ last.pc = "threw"
  /\ ExtensionCommands \subseteq commands

\* activate has completed without a configured repository
C30_WitnessUnconfigured ==
  /\ activation = "done"
  /\ configRepositoryPath = Null
  /\ started = 0
  /\ last.kind = "idle"
  /\ ExtensionCommands \subseteq commands

\* the paths made from path by writing a "." segment, a doubled separator or
\* a segment followed by ".." in front of one of its segments
Insertions(path) ==
  {SubSeq(path, 1, i - 1) \o ins \o SubSeq(path, i, Len(path)) :
     i \in 1..Len(path), ins \in {<<".">>, <<"">>, <<"w", "..">>, <<"a", "..">>}}

C27_WitnessDetour ==
  /\ probe.at # NoLocation
  /\ probe.path = <<"a">>
  /\ probe.other = <<"w", "..", "a">>
  /\ probe.other \in Insertions(probe.path)
  /\ probe.at = probe.otherAt

\* C24: getGitUserInfo never throws, whatever the state of the GitService;
\* called while no git instance can be asked (this.git is null) it returns
\* the name "Unknown" and the address "unknown@example.com" and shows a warning.
C24_IdentityNeverThrows ==
  /\ ~userInfo.threw
  /\ (userInfo # NoUserInfo /\ userInfo.g = Null) =>
       /\ userInfo.name = "Unknown"
       /\ userInfo.email = "unknown@example.com"
       /\ userInfo.warned
  /\ userInfo # NoUserInfo => userInfo.name # ""

\* getGitUserInfo was called on a GitService that was never initialized
C24_Witness ==
  /\ userInfo # NoUserInfo
  /\ userInfo.g = Null
  /\ ~initialized
  /\ userInfo.warned
  /\ defaultAuthorName = "Unknown"

\* getGitUserInfo was called on an initialized GitService
C24_WitnessConfigured ==
  /\ userInfo.g # Null
  /\ userInfo.name = GitUserName
  /\ ~userInfo.warned

\* an annotation of the store
Stored(id) ==
  \E q \in DOMAIN annotations : \E i \in 1..Len(annotations[q]) : annotations[q][i].id = id

\* no handler and no call of updateDecorationsForEditor is suspended
Settled == Busy = {} /\ decorations = {}

\* C29: while the annotations are toggled off and the toggle has run to its
\* end, provideCodeLenses returns no lens for the active document and no
\* comment thread of a stored annotation is live.
C29_HiddenWhileOff ==
  (~annotationsEnabled /\ Settled) =>
    /\ provideCodeLenses(activeEditor) = <<>>
    /\ \A id \in DOMAIN threads : threads[id].live => ~Stored(id)

\* the handler of slot s writes the document of saveAnnotations with this step
Persists(s) == handlers[s].pc = "save_write" /\ disk' # disk

\* the annotation the user asked to remove with the handler h
RemoveTarget(h) == IF h.kind = "delete" THEN h.id ELSE NoId

\* C31: a write of saveAnnotations, made for add, update, remove or
\* commitChanges, keeps in the document every annotation that was in it before
\* the write, except the one a remove was asked for.
C31_NoUnrequestedShrink ==
  [][\A s \in Slots :
       Persists(s) =>
         LET h == handlers[s]
             before == DocAnnotations(disk[h.file])
             after == DocAnnotations(disk'[h.file])
         IN  \A i \in 1..Len(before) :
               before[i].id # RemoveTarget(h) => HasId(after, before[i].id)]_vars

\* a create, an edit or a delete the user submitted on a comment thread has
\* run to its end
Submitted(r) == r.kind \in {"create", "edit", "delete"} /\ Ended(r)

\* add, update or remove was called for it
ReachedStore(r) == r.in # "" \/ r.ret # ""

\* C32: every create, edit or delete submitted on a comment thread either
\* reaches the store (add, update or remove is called) or ends with an error
\* message shown to the user.
C32_NoSilentDrop ==
  Submitted(last) => (ReachedStore(last) \/ last.err # "")

\* the ids of the store's annotations for the document of the active editor
StoredForEditor ==
  LET list == getAnnotationsForFile(relative(currentProjectPath, activeEditor),
                                    currentProjectPath)
  IN  {list[i].id : i \in 1..Len(list)}

\* the live threads on the document of the active editor: those of the
\* controller's map, by annotation id, and those made by user input
MapThreadsOnEditor ==
  {id \in DOMAIN threads : threads[id].doc = activeEditor /\ threads[id].live}

InputThreadsOnEditor == {t \in inputThreads : t.doc = activeEditor /\ t.live}

\* the number of live threads on the document that show the annotation id
ThreadsShowing(id) ==
  (IF id \in MapThreadsOnEditor THEN 1 ELSE 0)
    + Cardinality({t \in InputThreadsOnEditor : t.ann = id})

\* each stored annotation of the document has exactly one live thread, and
\* every live thread with a comment shows a stored annotation
OneThreadEach ==
  /\ \A id \in StoredForEditor : ThreadsShowing(id) = 1
  /\ MapThreadsOnEditor \subseteq StoredForEditor
  /\ \A t \in InputThreadsOnEditor : t.ann \in StoredForEditor

\* the last suspended call of updateDecorationsForEditor completes
RefreshCompletes == decorations # {} /\ decorations' = {}

\* C33: when a refresh of the active document completes, the live comment
\* threads with a comment on it correspond one-to-one to the store's
\* annotations for that file.
C33_ThreadsMatchStore == [][RefreshCompletes => OneThreadEach']_vars

\* C34: for every document, provideCodeLenses returns at most one lens per
\* annotation id, and only lenses of annotations whose stored filePath is the
\* document's own path relative to its project folder.
C34_LensesOfOwnFile ==
  \A doc \in LensDocuments :
    LET lenses == provideCodeLenses(doc)
    IN  /\ \A i, j \in 1..Len(lenses) : lenses[i].id = lenses[j].id => i = j
        /\ \A i \in 1..Len(lenses) : lenses[i].filePath = doc.f

====
